---- MODULE Spec2Model ----
(***************************************************************************)
(* Nabia: an in-memory key-value store (core/engine) with counters,        *)
(* timestamps and gob snapshots.  The store operations are pure operators  *)
(* over the NabiaDB value; the actions apply them one call at a time       *)
(* (Spec) or one shared-memory access at a time (SpecConc).                *)
(***************************************************************************)
EXTENDS Integers, Sequences, FiniteSets, TLC

\* ------------------------------------------------------------------ bounds
MaxReads == 3
MaxWrites == 3
MaxClock == 1
MaxBuf == 5

\* ------------------------------------------------------------------ inputs
\* keys offered to the calls; "" is the key every operation rejects
Keys == {"", "A", "B"}

\* a []byte: the nil slice is distinct from the empty, non-nil slice
NilData == [isNil |-> TRUE, bytes |-> <<>>]

MkBytes(s) == [isNil |-> FALSE, bytes |-> s]

Payloads == {NilData, MkBytes(<<>>), MkBytes(<<1>>)}

\* content-type strings as sequences of characters
CtEmpty == <<>>

CtPlain == <<"t", "/", "p">>

CtJson == <<"a", "/", "j">>

CtNoSlash == <<"t", "p">>

ContentTypes == {CtEmpty, CtPlain, CtJson, CtNoSlash}

\* the character class [a-zA-Z0-9] of the Content-Type pattern
Alnum ==
  {"a","b","c","d","e","f","g","h","i","j","k","l","m","n","o","p","q","r",
   "s","t","u","v","w","x","y","z","A","B","C","D","E","F","G","H","I","J",
   "K","L","M","N","O","P","Q","R","S","T","U","V","W","X","Y","Z","0","1",
   "2","3","4","5","6","7","8","9"}

\* regexp `^[a-zA-Z0-9]+/[a-zA-Z0-9]+` with MatchString: a prefix match
MatchString(ct) ==
  \E n \in 1..Len(ct) :
     /\ \A i \in 1..n : ct[i] \in Alnum
     /\ Len(ct) >= n + 2
     /\ ct[n + 1] = "/"
     /\ ct[n + 2] \in Alnum

\* ------------------------------------------------------------------ errors
NoErr == "nil"

ErrKeyEmpty == "key cannot be empty"

ErrValueNil == "value cannot be nil"

ErrCtEmpty == "Content-Type cannot be empty"

ErrCtInvalid == "Content-Type is not valid"

ErrNotExist == "key doesn't exist"

ErrTypeAssertion == "type assertion to NabiaRecord failed"

\* ------------------------------------------------------------------ records
NabiaRecord(data, ct) == [RawData |-> data, ContentType |-> ct]

\* NabiaRecord{}: the zero value returned next to an error
ZeroRecord == NabiaRecord(NilData, <<>>)

\* value.(NabiaRecord): the dynamic type check of a stored interface value
IsNabiaRecord(v) == DOMAIN v = {"RawData", "ContentType"}

EmptyMap == [k \in {} |-> ZeroRecord]

\* sync.Map.Store
MapStore(m, k, v) == [x \in (DOMAIN m) \cup {k} |-> IF x = k THEN v ELSE m[x]]

\* sync.Map.Delete
MapDelete(m, k) == [x \in (DOMAIN m) \ {k} |-> m[x]]

\* ------------------------------------------------------------------ store
newEmptyDB(t) ==
  [Records   |-> EmptyMap,
   location  |-> "",
   reads     |-> 0,
   writes    |-> 0,
   size      |-> 0,
   lastSave  |-> t,
   lastLoad  |-> t,
   lastRead  |-> t,
   lastWrite |-> t]

\* lastRead = time.Now(); atomic.AddInt64(&reads, 1)
AddReads(db, t) == [db EXCEPT !.lastRead = t, !.reads = @ + 1]

\* lastWrite = time.Now(); atomic.AddInt64(&writes, 1)
AddWrites(db, t) == [db EXCEPT !.lastWrite = t, !.writes = @ + 1]

\* atomic.AddInt64(&size, d)
AddSize(db, d) == [db EXCEPT !.size = @ + d]

\* _, ok := ns.Records.Load(key)
LoadOk(db, key) == key \in DOMAIN db.Records

\* a Store that updates the payload of a present key in place
StoreRecordKeepsType(db, key, value) ==
  [db EXCEPT !.Records =
     MapStore(@, key,
              IF key \in DOMAIN @
              THEN NabiaRecord(value.RawData, @[key].ContentType)
              ELSE value)]

\* a Store that leaves a present key alone (LoadOrStore)
StoreRecordIfAbsent(db, key, value) ==
  [db EXCEPT !.Records = IF key \in DOMAIN @ THEN @ ELSE MapStore(@, key, value)]

\* ns.Records.Store(key, value)
StoreRecord(db, key, value) == [db EXCEPT !.Records = MapStore(@, key, value)]

\* a Delete that leaves the entry in the map
DeleteRecordKeeps(db, key) == db

\* a delete that empties the whole map
DeleteRecordAll(db, key) == [db EXCEPT !.Records = EmptyMap]

\* ns.Records.Delete(key)
DeleteRecord(db, key) == [db EXCEPT !.Records = MapDelete(@, key)]

\* an Exists that counts the read before it looks at the key
ExistsCountsFirst(db, key, t) ==
  LET d == AddReads(db, t)
  IN  [db |-> d, ok |-> key # "" /\ LoadOk(d, key)]

Exists(db, key, t) ==
  IF key = ""
  THEN [db |-> db, ok |-> FALSE]
  ELSE LET d == AddReads(db, t)
       IN  [db |-> d, ok |-> LoadOk(d, key)]

\* a Read that counts the read only when it found the key
ReadCountsOnHit(db, key, t) ==
  IF key = ""
  THEN [db |-> db, record |-> ZeroRecord, err |-> ErrKeyEmpty]
  ELSE IF LoadOk(db, key)
  THEN [db |-> AddReads(db, t), record |-> db.Records[key], err |-> NoErr]
  ELSE [db |-> db, record |-> ZeroRecord, err |-> ErrNotExist]

\* a Read that counts itself as a write as well
ReadCountsWrite(db, key, t) ==
  IF key = ""
  THEN [db |-> db, record |-> ZeroRecord, err |-> ErrKeyEmpty]
  ELSE LET d == AddWrites(AddReads(db, t), t)
       IN  IF LoadOk(d, key)
           THEN IF IsNabiaRecord(d.Records[key])
                THEN [db |-> d, record |-> d.Records[key], err |-> NoErr]
                ELSE [db |-> d, record |-> ZeroRecord, err |-> ErrTypeAssertion]
           ELSE [db |-> d, record |-> ZeroRecord, err |-> ErrNotExist]

Read(db, key, t) ==
  IF key = ""
  THEN [db |-> db, record |-> ZeroRecord, err |-> ErrKeyEmpty]
  ELSE LET d == AddReads(db, t)
       IN  IF LoadOk(d, key)
           THEN IF IsNabiaRecord(d.Records[key])
                THEN [db |-> d, record |-> d.Records[key], err |-> NoErr]
                ELSE [db |-> d, record |-> ZeroRecord, err |-> ErrTypeAssertion]
           ELSE [db |-> d, record |-> ZeroRecord, err |-> ErrNotExist]

\* a validation that rejects every payload of length 0
\* (bytes.Equal(value, []byte{}))
ValidateRejectsEmpty(key, value) ==
  IF key = "" THEN ErrKeyEmpty
  ELSE IF Len(value.RawData.bytes) = 0 THEN ErrValueNil
  ELSE IF value.ContentType = <<>> THEN ErrCtEmpty
  ELSE IF ~MatchString(value.ContentType) THEN ErrCtInvalid
  ELSE NoErr

\* a validation that lets a nil payload pass
ValidateSkipsNil(key, value) ==
  IF key = "" THEN ErrKeyEmpty
  ELSE IF value.ContentType = <<>> THEN ErrCtEmpty
  ELSE IF ~MatchString(value.ContentType) THEN ErrCtInvalid
  ELSE NoErr

\* a validation that looks at the payload before the key
ValidateValueFirst(key, value) ==
  IF value.RawData.isNil THEN ErrValueNil
  ELSE IF key = "" THEN ErrKeyEmpty
  ELSE IF value.ContentType = <<>> THEN ErrCtEmpty
  ELSE IF ~MatchString(value.ContentType) THEN ErrCtInvalid
  ELSE NoErr

\* the validation part of Write: the error of the first failing check
Validate(key, value) ==
  IF key = "" THEN ErrKeyEmpty
  ELSE IF value.RawData.isNil THEN ErrValueNil
  ELSE IF value.ContentType = <<>> THEN ErrCtEmpty
  ELSE IF ~MatchString(value.ContentType) THEN ErrCtInvalid
  ELSE NoErr

\* a Write that counts the write before it validates
WriteCountsFirst(db, key, value, t) ==
  LET d1 == AddWrites(db, t)
  IN  IF Validate(key, value) # NoErr
      THEN [db |-> d1, err |-> Validate(key, value)]
      ELSE LET e  == Exists(d1, key, t)
               d2 == IF ~e.ok THEN AddSize(e.db, 1) ELSE e.db
           IN  [db |-> StoreRecord(d2, key, value), err |-> NoErr]

\* a Write that adds 1 to size whether or not the key was there
WriteSizeAlways(db, key, value, t) ==
  IF Validate(key, value) # NoErr
  THEN [db |-> db, err |-> Validate(key, value)]
  ELSE LET d1 == AddWrites(db, t)
           e  == Exists(d1, key, t)
       IN  [db |-> StoreRecord(AddSize(e.db, 1), key, value), err |-> NoErr]

Write(db, key, value, t) ==
  IF Validate(key, value) # NoErr
  THEN [db |-> db, err |-> Validate(key, value)]
  ELSE LET d1 == AddWrites(db, t)
           e  == Exists(d1, key, t)
           d2 == IF ~e.ok THEN AddSize(e.db, 1) ELSE e.db
       IN  [db |-> StoreRecord(d2, key, value), err |-> NoErr]

\* a Destroy that returns at once when the key is absent
DestroySkipsAbsent(db, key, t) ==
  LET e == Exists(db, key, t)
  IN  IF e.ok
      THEN AddWrites(DeleteRecord(AddSize(e.db, -1), key), t)
      ELSE e.db

\* a Destroy that decrements size without looking for the key
DestroyUnchecked(db, key, t) ==
  LET e == Exists(db, key, t)
  IN  AddWrites(DeleteRecord(AddSize(e.db, -1), key), t)

Destroy(db, key, t) ==
  LET e  == Exists(db, key, t)
      d1 == IF e.ok THEN AddSize(e.db, -1) ELSE e.db
  IN  AddWrites(DeleteRecord(d1, key), t)

\* ------------------------------------------------------------------ files
\* "db" can be created and written; the other location lies in a directory
\* that does not exist, so os.Create and os.Open fail on it
Locations == {"db", "/nonexistent/db"}

\* locations offered to NewNabiaDB and Stop: the empty string and a second
\* file that can be created
LifeLocations == {"", "db", "db2", "/nonexistent/db"}

Creatable(loc) == loc \in {"db", "db2"}

ErrLocationEmpty == "location cannot be empty"

\* log.Fatalf: the process exits
ErrFatal == "Failed to save to file"

\* gob sends a struct field only when it is not the zero value of its type:
\* a []byte of length 0 (nil or not) and an empty string are left out
GobStruct(r) ==
  [hasRawData     |-> Len(r.RawData.bytes) > 0,
   RawData        |-> r.RawData.bytes,
   hasContentType |-> r.ContentType # <<>>,
   ContentType    |-> r.ContentType]

\* encoder.Encode(data) for data of type map[string]NabiaRecord
GobEncode(data) == [k \in DOMAIN data |-> GobStruct(data[k])]

\* a field that was not sent keeps the zero value of the fresh struct
GobDecodeStruct(g) ==
  NabiaRecord(IF g.hasRawData THEN MkBytes(g.RawData) ELSE NilData,
              IF g.hasContentType THEN g.ContentType ELSE <<>>)

\* decoder.Decode(&data)
GobDecode(enc) == [k \in DOMAIN enc |-> GobDecodeStruct(enc[k])]

\* a file: absent, of length 0, a prefix of a gob stream, or a gob stream
FileOf(kind, enc) == [kind |-> kind, enc |-> enc]

NoFile == FileOf("absent", GobEncode(EmptyMap))

EmptyFile == FileOf("empty", GobEncode(EmptyMap))

PartialFile == FileOf("partial", GobEncode(EmptyMap))

GobFile(data) == FileOf("gob", GobEncode(data))

ErrCreate == "open: no such file or directory"

ErrWrite == "write failed"

ErrDecode == "gob: decode failed"

\* outcomes of the writes to the disk during a save: all succeed; one fails
\* while Encode fills the buffered writer; the deferred Flush fails after a
\* part of the bytes reached the file; it fails before any byte reached it
IoOutcomes == {"ok", "encodeFail", "flushFail", "flushNone"}

\* a Range callback that stops the iteration after the first entry
RangeCopyFirstOnly(data, db, key) ==
  IF key \in DOMAIN db.Records /\ DOMAIN data = {}
  THEN MapStore(data, key, db.Records[key])
  ELSE data

\* the callback of ns.Records.Range on the entry of key: data[strKey] = nabiaRecord
RangeCopy(data, db, key) ==
  IF key \in DOMAIN db.Records /\ IsNabiaRecord(db.Records[key])
  THEN MapStore(data, key, db.Records[key])
  ELSE data

\* encoder.Encode(data), lastSave, the deferred writer.Flush() whose error is
\* dropped, and file.Close()
EncodeAndFlush(db, fs, filename, data, io, t) ==
  IF io = "encodeFail"
  THEN [db |-> db, files |-> [fs EXCEPT ![filename] = PartialFile], err |-> ErrWrite]
  ELSE IF io = "flushFail"
  THEN [db |-> [db EXCEPT !.lastSave = t],
        files |-> [fs EXCEPT ![filename] = PartialFile], err |-> NoErr]
  ELSE IF io = "flushNone"
  THEN [db |-> [db EXCEPT !.lastSave = t],
        files |-> [fs EXCEPT ![filename] = EmptyFile], err |-> NoErr]
  ELSE [db |-> [db EXCEPT !.lastSave = t],
        files |-> [fs EXCEPT ![filename] = GobFile(data)], err |-> NoErr]

\* Range with no concurrent caller: every entry is copied
RECURSIVE RangeAll(_, _, _)
RangeAll(data, db, keys) ==
  IF keys = {}
  THEN data
  ELSE LET k == CHOOSE x \in keys : TRUE
       IN  RangeAll(RangeCopy(data, db, k), db, keys \ {k})

saveToFile(db, fs, filename, io, t) ==
  IF ~Creatable(filename)
  THEN [db |-> db, files |-> fs, err |-> ErrCreate]
  ELSE EncodeAndFlush(db, fs, filename,
                      RangeAll(EmptyMap, db, DOMAIN db.Records), io, t)

\* for key, value := range data { ndb.Write(key, value); size++ }
RECURSIVE LoadEntries(_, _, _, _)
LoadEntries(db, data, keys, t) ==
  IF keys = {}
  THEN db
  ELSE LET k == CHOOSE x \in keys : TRUE
           w == Write(db, k, data[k], t)
       IN  LoadEntries(AddSize(w.db, 1), data, keys \ {k}, t)

\* the nil *NabiaDB returned next to an error
NilDB == [nil |-> TRUE]

\* a load that takes a file of length 0 for the snapshot of an empty store
loadFromFileEmptyOk(fs, filename, t) ==
  IF fs[filename].kind = "absent"
  THEN [db |-> NilDB, err |-> ErrCreate]
  ELSE IF fs[filename].kind = "empty"
  THEN [db |-> [newEmptyDB(t) EXCEPT !.location = filename], err |-> NoErr]
  ELSE IF fs[filename].kind # "gob"
  THEN [db |-> NilDB, err |-> ErrDecode]
  ELSE LET data == GobDecode(fs[filename].enc)
           d0   == [newEmptyDB(t) EXCEPT !.location = filename]
           d1   == LoadEntries(d0, data, DOMAIN data, t)
       IN  [db |-> [d1 EXCEPT !.lastLoad = t], err |-> NoErr]

loadFromFile(fs, filename, t) ==
  IF fs[filename].kind = "absent"
  THEN [db |-> NilDB, err |-> ErrCreate]
  ELSE IF fs[filename].kind # "gob"
  THEN [db |-> NilDB, err |-> ErrDecode]
  ELSE LET data == GobDecode(fs[filename].enc)
           d0   == [newEmptyDB(t) EXCEPT !.location = filename]
           d1   == LoadEntries(d0, data, DOMAIN data, t)
       IN  [db |-> [d1 EXCEPT !.lastLoad = t], err |-> NoErr]

\* os.Stat, and os.Create when the file does not exist
checkOrCreateFile(fs, location) ==
  IF location = ""
  THEN [exists |-> FALSE, files |-> fs, err |-> ErrLocationEmpty]
  ELSE IF fs[location].kind # "absent"
  THEN [exists |-> TRUE, files |-> fs, err |-> NoErr]
  ELSE IF Creatable(location)
  THEN [exists |-> FALSE, files |-> [fs EXCEPT ![location] = EmptyFile],
        err |-> NoErr]
  ELSE [exists |-> FALSE, files |-> fs, err |-> ErrCreate]

\* a NewNabiaDB that saves a new store whether or not the file exists
NewNabiaDBAlwaysSaves(fs, location, io, t) ==
  LET c == checkOrCreateFile(fs, location)
  IN  IF c.err # NoErr
      THEN [db |-> NilDB, files |-> c.files, err |-> c.err]
      ELSE LET s == saveToFile([newEmptyDB(t) EXCEPT !.location = location],
                               c.files, location, io, t)
           IN  IF s.err # NoErr
               THEN [db |-> NilDB, files |-> s.files, err |-> ErrFatal]
               ELSE [db |-> s.db, files |-> s.files, err |-> NoErr]

\* NewNabiaDB(location): the store of an existing file is loaded from it, a
\* new store is saved at once; a failure of that save ends the process
NewNabiaDB(fs, location, io, t) ==
  LET c == checkOrCreateFile(fs, location)
  IN  IF c.err # NoErr
      THEN [db |-> NilDB, files |-> c.files, err |-> c.err]
      ELSE IF c.exists
      THEN LET l == loadFromFile(c.files, location, t)
           IN  [db |-> l.db, files |-> c.files, err |-> l.err]
      ELSE LET s == saveToFile([newEmptyDB(t) EXCEPT !.location = location],
                               c.files, location, io, t)
           IN  IF s.err # NoErr
               THEN [db |-> NilDB, files |-> s.files, err |-> ErrFatal]
               ELSE [db |-> s.db, files |-> s.files, err |-> NoErr]

\* a Stop that saves to a fixed file name
StopFixedName(db, fs, io, t) == saveToFile(db, fs, "db", io, t)

\* ns.saveToFile(ns.internals.location); Stop drops the error (err)
Stop(db, fs, io, t) == saveToFile(db, fs, db.location, io, t)

\* ------------------------------------------------------------------ codec
\* the printable ASCII characters, from the space (code 32) to the tilde
\* (the double quote, the backslash and the backtick are written by their
\* names)
Ascii ==
  <<" ", "!", "quote", "#", "$", "%", "&", "'", "(", ")", "*", "+", ",", "-",
    ".", "/", "0", "1", "2", "3", "4", "5", "6", "7", "8", "9", ":", ";",
    "<", "=", ">", "?", "@", "A", "B", "C", "D", "E", "F", "G", "H", "I",
    "J", "K", "L", "M", "N", "O", "P", "Q", "R", "S", "T", "U", "V", "W",
    "X", "Y", "Z", "[", "backslash", "]", "^", "_", "backtick", "a", "b", "c",
    "d", "e", "f", "g", "h", "i", "j", "k", "l", "m", "n", "o", "p", "q", "r", "s",
    "t", "u", "v", "w", "x", "y", "z", "{", "|", "}", "~">>

\* the byte of a character of a content-type string
CodeOf(ch) == 31 + (CHOOSE i \in 1..Len(Ascii) : Ascii[i] = ch)

\* the character of a byte (bytes that are not printable ASCII are kept
\* apart from every printable character)
CharOf(b) == IF b \in 32..126 THEN Ascii[b - 31] ELSE "nonprintable"

\* []byte(contentType)
StringToBytes(str) == [i \in 1..Len(str) |-> CodeOf(str[i])]

\* string(bytes)
BytesToString(bytes) == [i \in 1..Len(bytes) |-> CharOf(bytes[i])]

\* the content-type length is held in one byte
MaxContentTypeLen == 255

ErrContentTypeTooLarge == "content type too large"

ErrTruncated == "truncated"

ErrUnsupportedVersion == "unsupported version"

ErrInvalidContentType == "invalid content type"

\* a serialize that puts the payload before the content-type
serializePayloadFirst(payload, ct) ==
  IF Len(ct) > MaxContentTypeLen
  THEN [bytes |-> <<>>, err |-> ErrContentTypeTooLarge]
  ELSE [bytes |-> <<0, Len(ct)>> \o payload \o StringToBytes(ct), err |-> NoErr]

\* nsr.serialize(): version 0, the length byte, the content-type, the payload
serialize(payload, ct) ==
  IF Len(ct) > MaxContentTypeLen
  THEN [bytes |-> <<>>, err |-> ErrContentTypeTooLarge]
  ELSE [bytes |-> <<0, Len(ct)>> \o StringToBytes(ct) \o payload, err |-> NoErr]

\* the shape validation used by the store's Write
validateContentType(ct) == ct # <<>> /\ MatchString(ct)

\* a deserialize that wants at least one byte of payload
deserializeNeedsPayload(buf) ==
  IF Len(buf) < 2
  THEN [payload |-> <<>>, ct |-> <<>>, err |-> ErrTruncated]
  ELSE IF buf[1] # 0
  THEN [payload |-> <<>>, ct |-> <<>>, err |-> ErrUnsupportedVersion]
  ELSE IF buf[2] = 0 \/ Len(buf) < 2 + buf[2]
  THEN [payload |-> <<>>, ct |-> <<>>, err |-> ErrInvalidContentType]
  ELSE IF Len(buf) = 2 + buf[2]
  THEN [payload |-> <<>>, ct |-> <<>>, err |-> ErrTruncated]
  ELSE LET ct == BytesToString(SubSeq(buf, 3, 2 + buf[2]))
       IN  IF ~validateContentType(ct)
           THEN [payload |-> <<>>, ct |-> <<>>, err |-> ErrInvalidContentType]
           ELSE [payload |-> SubSeq(buf, 3 + buf[2], Len(buf)), ct |-> ct,
                 err |-> NoErr]

\* a deserialize that takes what is there when the buffer ends early
deserializeBestEffort(buf) ==
  IF Len(buf) < 2
  THEN [payload |-> <<>>, ct |-> <<>>, err |-> ErrTruncated]
  ELSE IF buf[1] # 0
  THEN [payload |-> <<>>, ct |-> <<>>, err |-> ErrUnsupportedVersion]
  ELSE LET n  == IF buf[2] <= Len(buf) - 2 THEN buf[2] ELSE Len(buf) - 2
           ct == BytesToString(SubSeq(buf, 3, 2 + n))
       IN  IF ~validateContentType(ct)
           THEN [payload |-> <<>>, ct |-> <<>>, err |-> ErrInvalidContentType]
           ELSE [payload |-> SubSeq(buf, 3 + n, Len(buf)), ct |-> ct,
                 err |-> NoErr]

\* bs.deserialize()
deserialize(buf) ==
  IF Len(buf) < 2
  THEN [payload |-> <<>>, ct |-> <<>>, err |-> ErrTruncated]
  ELSE IF buf[1] # 0
  THEN [payload |-> <<>>, ct |-> <<>>, err |-> ErrUnsupportedVersion]
  ELSE IF buf[2] = 0 \/ Len(buf) < 2 + buf[2]
  THEN [payload |-> <<>>, ct |-> <<>>, err |-> ErrInvalidContentType]
  ELSE LET ct == BytesToString(SubSeq(buf, 3, 2 + buf[2]))
       IN  IF ~validateContentType(ct)
           THEN [payload |-> <<>>, ct |-> <<>>, err |-> ErrInvalidContentType]
           ELSE [payload |-> SubSeq(buf, 3 + buf[2], Len(buf)), ct |-> ct,
                 err |-> NoErr]

\* ------------------------------------------------------------------ server
StatusOK == 200

StatusCreated == 201

StatusNotFound == 404

StatusMethodNotAllowed == 405

StatusConflict == 409

StatusInternalServerError == 500

\* "application/octet-stream"
CtOctetStream ==
  <<"a", "p", "p", "l", "i", "c", "a", "t", "i", "o", "n", "/", "o", "c",
    "t", "e", "t", "-", "s", "t", "r", "e", "a", "m">>

\* "text/plain; charset=utf-8", the Content-Type that http.Error sets
CtTextPlainUtf8 ==
  <<"t", "e", "x", "t", "/", "p", "l", "a", "i", "n", ";", " ", "c", "h",
    "a", "r", "s", "e", "t", "=", "u", "t", "f", "-", "8">>

\* the bytes of "Method not allowed" and the newline that http.Error adds
MethodNotAllowedBody ==
  <<77, 101, 116, 104, 111, 100, 32, 110, 111, 116, 32, 97, 108, 108, 111,
    119, 101, 100, 10>>

\* what the handler wrote: the status (200 when WriteHeader was not called
\* before the body), the Content-Type and Allow headers, the body
Response(status, contentType, allow, body) ==
  [status |-> status, contentType |-> contentType, allow |-> allow,
   body |-> body]

\* engine.NewNabiaRecord(body, engine.ContentType(ct)) with the generic
\* content-type for a request that has none; io.ReadAll returns a non-nil
\* slice
RequestRecord(body, ct) ==
  NabiaRecord(MkBytes(body), IF ct = <<>> THEN CtOctetStream ELSE ct)

\* a GET that does not set the Content-Type header
ServeGETNoHeader(db, key, t) ==
  LET r == Read(db, key, t)
  IN  IF r.err # NoErr
      THEN [db |-> r.db, resp |-> Response(StatusNotFound, <<>>, "", <<>>)]
      ELSE [db |-> r.db,
            resp |-> Response(StatusOK, <<>>, "", r.record.RawData.bytes)]

ServeGET(db, key, t) ==
  LET r == Read(db, key, t)
  IN  IF r.err # NoErr
      THEN [db |-> r.db, resp |-> Response(StatusNotFound, <<>>, "", <<>>)]
      ELSE [db |-> r.db,
            resp |-> Response(StatusOK, r.record.ContentType, "",
                              r.record.RawData.bytes)]

ServeHEAD(db, key, t) ==
  LET e == Exists(db, key, t)
  IN  [db |-> e.db,
       resp |-> Response(IF e.ok THEN StatusOK ELSE StatusNotFound,
                         <<>>, "", <<>>)]

\* a POST that writes without looking for the key
ServePOSTOverwrites(db, key, body, ct, readFails, t) ==
  IF readFails
  THEN [db |-> db, resp |-> Response(StatusInternalServerError, <<>>, "", <<>>)]
  ELSE [db |-> Write(db, key, RequestRecord(body, ct), t).db,
        resp |-> Response(StatusCreated, <<>>, "", <<>>)]

\* the error of h.db.Write is dropped
ServePOST(db, key, body, ct, readFails, t) ==
  IF readFails
  THEN [db |-> db, resp |-> Response(StatusInternalServerError, <<>>, "", <<>>)]
  ELSE LET e == Exists(db, key, t)
       IN  IF e.ok
           THEN [db |-> e.db, resp |-> Response(StatusConflict, <<>>, "", <<>>)]
           ELSE [db |-> Write(e.db, key, RequestRecord(body, ct), t).db,
                 resp |-> Response(StatusCreated, <<>>, "", <<>>)]

\* a PUT that stores what it could read of the body before it answers 500
ServePUTStoresUnread(db, key, body, ct, readFails, t) ==
  LET e == Exists(db, key, t)
      w == Write(e.db, key, RequestRecord(body, ct), t).db
  IN  IF readFails
      THEN [db |-> w,
            resp |-> Response(StatusInternalServerError, <<>>, "", <<>>)]
      ELSE [db |-> w,
            resp |-> Response(IF e.ok THEN StatusOK ELSE StatusCreated,
                              <<>>, "", <<>>)]

\* a PUT that answers 201 whether or not the key existed
ServePUTAlwaysCreated(db, key, body, ct, readFails, t) ==
  IF readFails
  THEN [db |-> db, resp |-> Response(StatusInternalServerError, <<>>, "", <<>>)]
  ELSE LET e == Exists(db, key, t)
       IN  [db |-> Write(e.db, key, RequestRecord(body, ct), t).db,
            resp |-> Response(StatusCreated, <<>>, "", <<>>)]

ServePUT(db, key, body, ct, readFails, t) ==
  IF readFails
  THEN [db |-> db, resp |-> Response(StatusInternalServerError, <<>>, "", <<>>)]
  ELSE LET e == Exists(db, key, t)
       IN  [db |-> Write(e.db, key, RequestRecord(body, ct), t).db,
            resp |-> Response(IF e.ok THEN StatusOK ELSE StatusCreated,
                              <<>>, "", <<>>)]

\* a DELETE that answers 200 whether or not the key existed
ServeDELETEAlwaysOK(db, key, t) ==
  LET e == Exists(db, key, t)
  IN  [db |-> Destroy(e.db, key, t),
       resp |-> Response(StatusOK, <<>>, "", <<>>)]

ServeDELETE(db, key, t) ==
  LET e == Exists(db, key, t)
  IN  IF e.ok
      THEN [db |-> Destroy(e.db, key, t),
            resp |-> Response(StatusOK, <<>>, "", <<>>)]
      ELSE [db |-> e.db, resp |-> Response(StatusNotFound, <<>>, "", <<>>)]

ServePATCH(db, key, body, ct, readFails, t) ==
  IF readFails
  THEN [db |-> db, resp |-> Response(StatusInternalServerError, <<>>, "", <<>>)]
  ELSE LET e == Exists(db, key, t)
       IN  IF e.ok
           THEN [db |-> Write(e.db, key, RequestRecord(body, ct), t).db,
                 resp |-> Response(StatusOK, <<>>, "", <<>>)]
           ELSE [db |-> e.db, resp |-> Response(StatusNotFound, <<>>, "", <<>>)]

ServeOPTIONS(db, key, t) ==
  LET e == Exists(db, key, t)
  IN  [db |-> e.db,
       resp |-> Response(StatusOK, <<>>,
                         IF e.ok THEN "GET, PUT, PATCH, DELETE" ELSE "PUT, POST",
                         <<>>)]

\* NabiaHTTP.ServeHTTP: key is the path of the request, ct its Content-Type
\* header (empty when it has none), readFails whether io.ReadAll of the
\* body fails
ServeHTTP(db, method, key, body, ct, readFails, t) ==
  CASE method = "GET" -> ServeGET(db, key, t)
    [] method = "HEAD" -> ServeHEAD(db, key, t)
    [] method = "POST" -> ServePOST(db, key, body, ct, readFails, t)
    [] method = "PUT" -> ServePUT(db, key, body, ct, readFails, t)
    [] method = "DELETE" -> ServeDELETE(db, key, t)
    [] method = "PATCH" -> ServePATCH(db, key, body, ct, readFails, t)
    [] method = "OPTIONS" -> ServeOPTIONS(db, key, t)
    [] OTHER -> [db |-> db,
                 resp |-> Response(StatusMethodNotAllowed, CtTextPlainUtf8, "",
                                   MethodNotAllowedBody)]

\* ServeHTTP of the handler that logs the client: net.SplitHostPort of
\* r.RemoteAddr comes before the switch on the method, and its failure is
\* answered 500 at once
ServeHTTPFrom(db, addrOk, method, key, body, ct, readFails, t) ==
  IF ~addrOk
  THEN [db |-> db, resp |-> Response(StatusInternalServerError, <<>>, "", <<>>)]
  ELSE ServeHTTP(db, method, key, body, ct, readFails, t)

\* ------------------------------------------------------------------ client
ErrRequest == "dial tcp: connection refused"

\* optionsData(key, host, port) given whether makeRequest fails and the Allow
\* header of the response (response.Header.Get("Allow") is "" for a missing
\* header as for an empty one).  log.Fatalf prints and calls os.Exit(1), so
\* the function does not return: returned is FALSE and the process is over.
optionsData(requestFails, allow) ==
  IF requestFails
  THEN [returned |-> TRUE, result |-> "", err |-> ErrRequest]
  ELSE IF allow = ""
  THEN [returned |-> FALSE, result |-> "", err |-> NoErr]
  ELSE [returned |-> TRUE, result |-> allow, err |-> NoErr]

\* ------------------------------------------------------------------ state
VARIABLES ndb, now, last, files, call, hist

vars == <<ndb, now, last, files, call, hist>>

\* the state of the concurrent callers and the record of what they did
conc == <<call, hist>>

\* the outcome of the latest call: operation, arguments, results
\* (before and filesBefore are the store and the files as the call found
\* them, at is the time of the call; buf is the byte sequence a codec call
\* took or produced; status and allow belong to the response of a request)
CallOutcome(op, key, value, loc, io, err, ok, record) ==
  [op |-> op, key |-> key, value |-> value, loc |-> loc, io |-> io,
   err |-> err, ok |-> ok, record |-> record,
   before |-> ndb, filesBefore |-> files, at |-> now,
   buf |-> <<>>, status |-> 0, allow |-> "", result |-> ""]

Outcome(op, key, value, err, ok, record) ==
  CallOutcome(op, key, value, "", "ok", err, ok, record)

FileOutcome(op, loc, io, err) ==
  CallOutcome(op, "", ZeroRecord, loc, io, err, err = NoErr, ZeroRecord)

InitFiles == [l \in Locations \cup LifeLocations |-> NoFile]

\* concurrent callers (goroutines)
Procs == {"g1", "g2"}

\* keys and records the concurrent callers use
ConcKeys == {"A", "B"}

ConcValues ==
  {NabiaRecord(MkBytes(<<1>>), CtPlain), NabiaRecord(MkBytes(<<>>), CtJson),
   NabiaRecord(NilData, CtPlain)}

\* a caller: where it is in its call (pc), the call's arguments, the local
\* variables (ok; data and the keys visited by Range) and the results (err,
\* record; status for a request handler); rfloor and rver count the Stores made on the key when a Read was
\* invoked and when it loaded, rstored is the record of the latest of them
IdleCall ==
  [pc |-> "idle", op |-> "none", key |-> "", value |-> ZeroRecord,
   ok |-> FALSE, err |-> NoErr, record |-> ZeroRecord, rfloor |-> 0, rver |-> 0,
   rstored |-> ZeroRecord,
   loc |-> "", io |-> "ok", visited |-> {}, data |-> EmptyMap, status |-> 0]

\* what the callers did: stores[k] the number of Stores made on k and
\* stored[k] the record of the latest of them;
\* deleted[k] whether a Destroy(k) was ever invoked; users[k] the callers
\* that used k; expected the sums of the per-call effects on the counters;
\* overlap whether a call ever ran while another was in flight; saving
\* whether a save is in flight, saver the caller of the latest save that
\* created its file and seen[k] what k held during that save (ZeroRecord for
\* absent)
InitHist ==
  [stores   |-> [k \in ConcKeys |-> 0],
   stored   |-> [k \in ConcKeys |-> ZeroRecord],
   deleted  |-> [k \in ConcKeys |-> FALSE],
   users    |-> [k \in ConcKeys |-> {}],
   expected |-> [reads |-> 0, writes |-> 0, size |-> 0],
   overlap  |-> FALSE,
   saving   |-> FALSE,
   saver    |-> "none",
   seen     |-> [k \in ConcKeys |-> {}]]

NoCall ==
  [op |-> "none", key |-> "", value |-> ZeroRecord, loc |-> "", io |-> "ok",
   err |-> NoErr, ok |-> FALSE, record |-> ZeroRecord,
   before |-> newEmptyDB(0), filesBefore |-> InitFiles, at |-> 0,
   buf |-> <<>>, status |-> 0, allow |-> "", result |-> ""]

Init ==
  /\ ndb = newEmptyDB(0)
  /\ now = 0
  /\ last = NoCall
  /\ files = InitFiles
  /\ call = [p \in Procs |-> IdleCall]
  /\ hist = InitHist

InBounds == ndb.reads < MaxReads /\ ndb.writes < MaxWrites

\* time passes between calls
Tick ==
  /\ now < MaxClock
  /\ now' = now + 1
  /\ UNCHANGED <<ndb, last, files, conc>>

DoExists(key) ==
  /\ InBounds
  /\ LET r == Exists(ndb, key, now)
     IN  /\ ndb' = r.db
         /\ last' = Outcome("Exists", key, ZeroRecord, NoErr, r.ok, ZeroRecord)
  /\ UNCHANGED <<now, files, conc>>

DoRead(key) ==
  /\ InBounds
  /\ LET r == Read(ndb, key, now)
     IN  /\ ndb' = r.db
         /\ last' = Outcome("Read", key, ZeroRecord, r.err, r.err = NoErr, r.record)
  /\ UNCHANGED <<now, files, conc>>

DoWrite(key, value) ==
  /\ InBounds
  /\ LET r == Write(ndb, key, value, now)
     IN  /\ ndb' = r.db
         /\ last' = Outcome("Write", key, value, r.err, r.err = NoErr, ZeroRecord)
  /\ UNCHANGED <<now, files, conc>>

DoDestroy(key) ==
  /\ InBounds
  /\ ndb' = Destroy(ndb, key, now)
  /\ last' = Outcome("Destroy", key, ZeroRecord, NoErr, TRUE, ZeroRecord)
  /\ UNCHANGED <<now, files, conc>>

DoSave(loc, io) ==
  /\ LET r == saveToFile(ndb, files, loc, io, now)
     IN  /\ ndb' = r.db
         /\ files' = r.files
         /\ last' = FileOutcome("Save", loc, io, r.err)
  /\ UNCHANGED <<now, conc>>

\* the program goes on with the store that loadFromFile returned; when it
\* returned an error there is no new store
DoLoad(loc) ==
  /\ LET r == loadFromFile(files, loc, now)
     IN  /\ ndb' = IF r.err = NoErr THEN r.db ELSE ndb
         /\ last' = FileOutcome("Load", loc, "ok", r.err)
  /\ UNCHANGED <<now, files, conc>>

Next ==
  \/ \E k \in Keys : DoExists(k)
  \/ \E k \in Keys : DoRead(k)
  \/ \E k \in Keys, p \in Payloads, c \in ContentTypes : DoWrite(k, NabiaRecord(p, c))
  \/ \E k \in Keys : DoDestroy(k)
  \/ Tick

Spec == Init /\ [][Next]_vars

\* the store is one that NewNabiaDB or loadFromFile returned
Constructed == ndb.location # ""

DoNew(loc, io) ==
  /\ LET r == NewNabiaDB(files, loc, io, now)
     IN  /\ ndb' = IF r.err = NoErr THEN r.db ELSE ndb
         /\ files' = r.files
         /\ last' = FileOutcome("New", loc, io, r.err)
  /\ UNCHANGED <<now, conc>>

DoStop(io) ==
  /\ Constructed
  /\ LET r == Stop(ndb, files, io, now)
     IN  /\ ndb' = r.db
         /\ files' = r.files
         /\ last' = FileOutcome("Stop", ndb.location, io, r.err)
  /\ UNCHANGED <<now, conc>>

\* payloads and keys written between the construction and the Stop
LifeKeys == {"A"}

LifeValues ==
  {NabiaRecord(MkBytes(<<1>>), CtPlain), NabiaRecord(MkBytes(<<>>), CtJson)}

\* the life of a store: construction, writes, deletes, saves, loads, Stop
NextLife ==
  \/ \E l \in LifeLocations, io \in IoOutcomes : DoNew(l, io)
  \/ \E k \in LifeKeys, v \in LifeValues : Constructed /\ DoWrite(k, v)
  \/ \E k \in LifeKeys : Constructed /\ DoDestroy(k)
  \/ \E l \in LifeLocations : Constructed /\ DoSave(l, "ok")
  \/ \E l \in LifeLocations : Constructed /\ DoLoad(l)
  \/ \E io \in IoOutcomes : DoStop(io)

SpecLife == Init /\ [][NextLife]_vars

\* reads, writes and saves of one store, with the clock moving between them
NextFrame ==
  \/ \E k \in {"", "A"} : DoExists(k)
  \/ \E k \in {"", "A"} : DoRead(k)
  \/ \E k \in {"", "A"}, v \in LifeValues : DoWrite(k, v)
  \/ \E k \in {"", "A"} : DoDestroy(k)
  \/ \E l \in Locations, io \in IoOutcomes : DoSave(l, io)
  \/ Tick

SpecFrame == Init /\ [][NextFrame]_vars

\* content-types offered to Write beside CtPlain and CtNoSlash: with a
\* parameter, with no type, with no subtype, with spaces around the slash,
\* with trailing text, with a parameter that has no value
CtParam == <<"t", "/", "p", ";", "c", "=", "u">>

CtNoType == <<"/", "p">>

CtNoSubtype == <<"t", "/">>

CtSpaced == <<"t", " ", "/", " ", "p">>

CtTrailing == <<"t", "/", "p", " ", "x">>

CtBadParam == <<"t", "/", "p", ";", "x">>

ShapeContentTypes ==
  {CtPlain, CtParam, CtNoSlash, CtNoType, CtNoSubtype, CtSpaced, CtTrailing,
   CtBadParam}

\* Write calls with content-types of every shape, and reads and deletes
NextShape ==
  \/ \E k \in ConcKeys, c \in ShapeContentTypes :
        DoWrite(k, NabiaRecord(MkBytes(<<1>>), c))
  \/ \E k \in ConcKeys : DoRead(k)
  \/ \E k \in ConcKeys : DoDestroy(k)

SpecShape == Init /\ [][NextShape]_vars

\* a content-type of n characters: a long type, the slash, a subtype
CtOfLen(n) ==
  [i \in 1..n |-> IF i <= n - 2 THEN "a" ELSE IF i = n - 1 THEN "/" ELSE "t"]

\* content-types offered to serialize: the longest that fits the length
\* byte and the shortest that does not among them
CodecContentTypes ==
  {CtEmpty, CtNoSlash, CtPlain, CtParam, CtOctetStream,
   CtOfLen(MaxContentTypeLen), CtOfLen(MaxContentTypeLen + 1)}

\* payloads offered to serialize; the last is "test"
CodecPayloads == {<<>>, <<0>>, <<255, 0>>, <<116, 101, 115, 116>>}

\* the bytes of the buffers offered to deserialize: 47 is the slash, 116
\* the letter t
BufBytes == {0, 1, 3, 47, 116}

\* the buffers offered to deserialize
Buffers == UNION {[1..n -> BufBytes] : n \in 0..MaxBuf}

\* the codec keeps no state: a behaviour applies it once, to one input
DoEncode(payload, ct) ==
  /\ last.op = "none"
  /\ LET r == serialize(payload, ct)
     IN  last' = [Outcome("Encode", "", NabiaRecord(MkBytes(payload), ct),
                          r.err, r.err = NoErr, ZeroRecord)
                    EXCEPT !.buf = r.bytes]
  /\ UNCHANGED <<ndb, now, files, conc>>

DoDecode(buf) ==
  /\ last.op = "none"
  /\ LET r == deserialize(buf)
     IN  last' = [Outcome("Decode", "", ZeroRecord, r.err, r.err = NoErr,
                          IF r.err = NoErr
                          THEN NabiaRecord(MkBytes(r.payload), r.ct)
                          ELSE ZeroRecord)
                    EXCEPT !.buf = buf]
  /\ UNCHANGED <<ndb, now, files, conc>>

\* calls of the record codec
NextCodec ==
  \/ \E p \in CodecPayloads, c \in CodecContentTypes : DoEncode(p, c)
  \/ \E b \in Buffers : DoDecode(b)

SpecCodec == Init /\ [][NextCodec]_vars

\* the methods of the requests; TRACE is a method the handler has no case for
Methods ==
  {"GET", "HEAD", "POST", "PUT", "DELETE", "PATCH", "OPTIONS", "TRACE"}

\* the methods whose case reads the body of the request
BodyMethods == {"POST", "PUT", "PATCH"}

\* a request is served with up to four reads of the store (Exists, and the
\* Exists inside Write or Destroy, each at most twice)
ServedInBounds == ndb.reads < 2 * MaxReads /\ ndb.writes < MaxWrites

\* one request, handled from its first to its last step before the next
DoRequest(method, key, body, ct, readFails) ==
  /\ ServedInBounds
  /\ LET r == ServeHTTP(ndb, method, key, body, ct, readFails, now)
     IN  /\ ndb' = r.db
         /\ last' = [CallOutcome(method, key, NabiaRecord(MkBytes(body), ct),
                                 "", IF readFails THEN "readFail" ELSE "ok",
                                 NoErr, TRUE,
                                 NabiaRecord(MkBytes(r.resp.body),
                                             r.resp.contentType))
                       EXCEPT !.status = r.resp.status,
                              !.allow = r.resp.allow]
  /\ UNCHANGED <<now, files, conc>>

\* one request whose remote address has no port
DoRequestBadAddr(method, key) ==
  /\ ServedInBounds
  /\ LET r == ServeHTTPFrom(ndb, FALSE, method, key, <<>>, CtEmpty, FALSE, now)
     IN  /\ ndb' = r.db
         /\ last' = [CallOutcome(method, key, NabiaRecord(MkBytes(<<>>), CtEmpty),
                                 "", "addrFail", NoErr, TRUE,
                                 NabiaRecord(MkBytes(r.resp.body),
                                             r.resp.contentType))
                       EXCEPT !.status = r.resp.status,
                              !.allow = r.resp.allow]
  /\ UNCHANGED <<now, files, conc>>

\* requests with an empty body or one of two bodies, and with no
\* Content-Type header, a well-formed one or one without a slash
NextHTTP ==
  \/ \E m \in BodyMethods, k \in ConcKeys, b \in {<<>>, <<1>>, <<2>>},
        c \in {CtEmpty, CtPlain, CtNoSlash} : DoRequest(m, k, b, c, FALSE)
  \/ \E m \in BodyMethods, k \in ConcKeys :
        DoRequest(m, k, <<>>, CtEmpty, TRUE)
  \/ \E m \in Methods \ BodyMethods, k \in ConcKeys :
        DoRequest(m, k, <<>>, CtEmpty, FALSE)

SpecHTTP == Init /\ [][NextHTTP]_vars

\* a run of the client's OPTIONS command against this server
DoOptions(key) ==
  /\ ServedInBounds
  /\ LET r == ServeHTTP(ndb, "OPTIONS", key, <<>>, CtOctetStream, FALSE, now)
         o == optionsData(FALSE, r.resp.allow)
     IN  /\ ndb' = r.db
         /\ last' = [CallOutcome("optionsData", key, ZeroRecord, "", "ok",
                                 o.err, o.returned, ZeroRecord)
                       EXCEPT !.status = r.resp.status,
                              !.allow = r.resp.allow,
                              !.result = o.result]
  /\ UNCHANGED <<now, files, conc>>

\* a run of it against another server: the request fails, or the response
\* carries the Allow header allow (empty for none)
DoOptionsElsewhere(key, requestFails, allow) ==
  /\ LET o == optionsData(requestFails, allow)
     IN  last' = [CallOutcome("optionsData", key, ZeroRecord, "",
                              IF requestFails THEN "requestFail" ELSE "ok",
                              o.err, o.returned, ZeroRecord)
                    EXCEPT !.status = IF requestFails THEN 0 ELSE StatusOK,
                           !.allow = IF requestFails THEN "" ELSE allow,
                           !.result = o.result]
  /\ UNCHANGED <<ndb, now, files, conc>>

NextClient ==
  \/ \E m \in {"POST", "DELETE"}, k \in ConcKeys :
       DoRequest(m, k, <<1>>, CtPlain, FALSE)
  \/ \E k \in ConcKeys : DoOptions(k)
  \/ \E k \in ConcKeys, f \in BOOLEAN,
        a \in {"", "GET, POST, PUT, DELETE, HEAD, OPTIONS"} :
       DoOptionsElsewhere(k, f, a)

SpecClient == Init /\ [][NextClient]_vars

\* the requests of the handler that parses the remote address first
NextHTTPFrom ==
  \/ NextHTTP
  \/ \E m \in Methods, k \in ConcKeys : DoRequestBadAddr(m, k)

SpecHTTPFrom == Init /\ [][NextHTTPFrom]_vars

\* values a caller assigns to an element of a byte slice
ByteValues == {1, 2}

\* s[i] = b on a slice s whose array is the one of the payload stored under
\* key: Write stores the NabiaRecord it was passed and Read returns the stored
\* NabiaRecord, both by value, and the value of a slice is a reference to
\* its array, so the caller's slice and the stored RawData are one array
SetElement(db, key, i, b) ==
  [db EXCEPT !.Records[key].RawData.bytes[i] = b]

\* the caller of the latest Write or Read assigns to an element of the slice
\* it passed to Write or got from Read
ModifySlice(b) ==
  /\ last.op \in {"Write", "Read", "Modify"}
  /\ last.err = NoErr
  /\ last.key \in DOMAIN ndb.Records
  /\ \E i \in 1..Len(ndb.Records[last.key].RawData.bytes) :
        ndb' = SetElement(ndb, last.key, i, b)
  /\ last' = Outcome("Modify", last.key, ndb.Records[last.key], NoErr, TRUE,
                     ZeroRecord)
  /\ UNCHANGED <<now, files, conc>>

\* calls of one caller that keeps the slices it passed and got
NextAlias ==
  \/ \E k \in Keys : DoRead(k)
  \/ \E k \in Keys, p \in Payloads, c \in ContentTypes : DoWrite(k, NabiaRecord(p, c))
  \/ \E k \in Keys : DoDestroy(k)
  \/ \E b \in ByteValues : ModifySlice(b)

SpecAlias == Init /\ [][NextAlias]_vars

\* Write and Destroy calls interleaved with saves and loads
NextPersist ==
  \/ \E k \in Keys, p \in Payloads, c \in ContentTypes : DoWrite(k, NabiaRecord(p, c))
  \/ \E k \in Keys : DoDestroy(k)
  \/ \E l \in Locations, io \in IoOutcomes : DoSave(l, io)
  \/ \E l \in Locations : DoLoad(l)

SpecPersist == Init /\ [][NextPersist]_vars

\* ------------------------------------------------------------------ concurrent callers
\* Each action below is one access to the shared store (an atomic add, a
\* sync.Map operation) of one caller; a call's invocation is taken together
\* with its first access and its return with its last.  The clock stands
\* still, so the timestamp assignments that go with the adds store one value.
Quiescent == \A p \in Procs : call[p].pc = "idle"

OthersInFlight(p) == \E q \in Procs \ {p} : call[q].pc # "idle"

Invoke(op, key, value) ==
  [IdleCall EXCEPT !.op = op, !.key = key, !.value = value]

\* the record of an invocation of caller p on key
Used(p, key) ==
  [hist EXCEPT !.users = [k \in ConcKeys |-> IF k = key THEN @[k] \cup {p} ELSE @[k]],
               !.overlap = @ \/ OthersInFlight(p)]

\* key holds r from now on: noted while a save is in flight
SeenNow(key, r) ==
  [k \in ConcKeys |-> IF hist.saving /\ k = key
                      THEN hist.seen[k] \cup {r} ELSE hist.seen[k]]

Counted(h, r, w, s) ==
  [h EXCEPT !.expected = [reads |-> @.reads + r, writes |-> @.writes + w,
                          size |-> @.size + s]]

BeginExists(p, key) ==
  /\ call[p].pc = "idle"
  /\ InBounds
  /\ IF key = ""
     THEN /\ call' = [call EXCEPT ![p] = Invoke("Exists", key, ZeroRecord)]
          /\ ndb' = ndb
     ELSE /\ call' = [call EXCEPT ![p] =
                        [Invoke("Exists", key, ZeroRecord) EXCEPT !.pc = "e_load"]]
          /\ ndb' = AddReads(ndb, now)
  /\ hist' = Used(p, key)
  /\ UNCHANGED <<now, last, files>>

\* Exists called by Write: lastRead, reads
ExistsReads(p) ==
  /\ call[p].pc = "e_reads"
  /\ ndb' = AddReads(ndb, now)
  /\ call' = [call EXCEPT ![p].pc = "e_load"]
  /\ UNCHANGED <<now, last, files, hist>>

\* _, ok := ns.Records.Load(key); return ok, to Exists' caller
ExistsLoad(p) ==
  /\ call[p].pc = "e_load"
  /\ LET ok == LoadOk(ndb, call[p].key)
     IN  /\ call' = [call EXCEPT ![p].ok = ok,
                       ![p].pc = CASE call[p].op = "Write" ->
                                        IF ~ok THEN "w_size" ELSE "w_store"
                                   [] call[p].op = "Destroy" ->
                                        IF ok THEN "d_size" ELSE "d_delete"
                                   [] OTHER -> "idle"]
         /\ hist' = IF call[p].op = "Exists" THEN Counted(hist, 1, 0, 0) ELSE hist
  /\ UNCHANGED <<ndb, now, last, files>>

BeginRead(p, key) ==
  /\ call[p].pc = "idle"
  /\ InBounds
  /\ IF key = ""
     THEN /\ call' = [call EXCEPT ![p] =
                        [Invoke("Read", key, ZeroRecord) EXCEPT !.err = ErrKeyEmpty]]
          /\ ndb' = ndb
     ELSE /\ call' = [call EXCEPT ![p] =
                        [Invoke("Read", key, ZeroRecord) EXCEPT
                           !.pc = "r_load", !.rfloor = hist.stores[key]]]
          /\ ndb' = AddReads(ndb, now)
  /\ hist' = Used(p, key)
  /\ UNCHANGED <<now, last, files>>

\* value, ok := ns.Records.Load(key) and the return of Read
ReadLoad(p) ==
  /\ call[p].pc = "r_load"
  /\ LET key == call[p].key
     IN  call' = [call EXCEPT
                    ![p].pc = "idle",
                    ![p].rver = hist.stores[key],
                    ![p].rstored = hist.stored[key],
                    ![p].err = IF ~LoadOk(ndb, key) THEN ErrNotExist
                               ELSE IF ~IsNabiaRecord(ndb.Records[key])
                                    THEN ErrTypeAssertion ELSE NoErr,
                    ![p].record = IF LoadOk(ndb, key) /\ IsNabiaRecord(ndb.Records[key])
                                  THEN ndb.Records[key] ELSE ZeroRecord]
  /\ hist' = Counted(hist, 1, 0, 0)
  /\ UNCHANGED <<ndb, now, last, files>>

\* validation, then lastWrite and writes
BeginWrite(p, key, value) ==
  /\ call[p].pc = "idle"
  /\ InBounds
  /\ IF Validate(key, value) # NoErr
     THEN /\ call' = [call EXCEPT ![p] =
                        [Invoke("Write", key, value) EXCEPT !.err = Validate(key, value)]]
          /\ ndb' = ndb
     ELSE /\ call' = [call EXCEPT ![p] =
                        [Invoke("Write", key, value) EXCEPT !.pc = "e_reads"]]
          /\ ndb' = AddWrites(ndb, now)
  /\ hist' = Used(p, key)
  /\ UNCHANGED <<now, last, files>>

\* a size update that is a plain read of the size followed by a write of it
\* (here the size is read as the number of keys stored so far)
WriteSetSize(p) ==
  /\ call[p].pc = "w_size"
  /\ ndb' = [ndb EXCEPT !.size = Cardinality(DOMAIN ndb.Records) + 1]
  /\ call' = [call EXCEPT ![p].pc = "w_store"]
  /\ UNCHANGED <<now, last, files, hist>>

\* if !ns.Exists(key) { atomic.AddInt64(&size, 1) }
WriteAddSize(p) ==
  /\ call[p].pc = "w_size"
  /\ ndb' = AddSize(ndb, 1)
  /\ call' = [call EXCEPT ![p].pc = "w_store"]
  /\ UNCHANGED <<now, last, files, hist>>

\* ns.Records.Store(key, value); return nil
WriteStore(p) ==
  /\ call[p].pc = "w_store"
  /\ LET key == call[p].key
     IN  /\ ndb' = StoreRecord(ndb, key, call[p].value)
         /\ hist' = Counted([hist EXCEPT !.stores[key] = @ + 1,
                                          !.stored[key] = call[p].value,
                                          !.seen = SeenNow(key, call[p].value)],
                            1, 1, IF LoadOk(ndb, key) THEN 0 ELSE 1)
  /\ call' = [call EXCEPT ![p].pc = "idle", ![p].ok = FALSE]
  /\ UNCHANGED <<now, last, files>>

BeginDestroy(p, key) ==
  /\ call[p].pc = "idle"
  /\ InBounds
  /\ IF key = ""
     THEN /\ call' = [call EXCEPT ![p] =
                        [Invoke("Destroy", key, ZeroRecord) EXCEPT !.pc = "d_delete"]]
          /\ ndb' = ndb
     ELSE /\ call' = [call EXCEPT ![p] =
                        [Invoke("Destroy", key, ZeroRecord) EXCEPT !.pc = "e_load"]]
          /\ ndb' = AddReads(ndb, now)
  /\ hist' = [Used(p, key) EXCEPT
                !.deleted = [k \in ConcKeys |-> @[k] \/ k = key]]
  /\ UNCHANGED <<now, last, files>>

\* if ns.Exists(key) { atomic.AddInt64(&size, -1) }
DestroyAddSize(p) ==
  /\ call[p].pc = "d_size"
  /\ ndb' = AddSize(ndb, -1)
  /\ call' = [call EXCEPT ![p].pc = "d_delete"]
  /\ UNCHANGED <<now, last, files, hist>>

\* ns.Records.Delete(key)
DestroyDelete(p) ==
  /\ call[p].pc = "d_delete"
  /\ ndb' = DeleteRecord(ndb, call[p].key)
  /\ hist' = Counted([hist EXCEPT !.seen = SeenNow(call[p].key, ZeroRecord)],
                     0, 0, IF LoadOk(ndb, call[p].key) THEN -1 ELSE 0)
  /\ call' = [call EXCEPT ![p].pc = "d_writes"]
  /\ UNCHANGED <<now, last, files>>

\* lastWrite, writes and the return of Destroy
DestroyAddWrites(p) ==
  /\ call[p].pc = "d_writes"
  /\ ndb' = AddWrites(ndb, now)
  /\ hist' = Counted(hist, IF call[p].key = "" THEN 0 ELSE 1, 1, 0)
  /\ call' = [call EXCEPT ![p].pc = "idle", ![p].ok = FALSE]
  /\ UNCHANGED <<now, last, files>>

NextConc ==
  \E p \in Procs :
    \/ \E k \in ConcKeys : BeginExists(p, k)
    \/ ExistsReads(p)
    \/ ExistsLoad(p)
    \/ \E k \in ConcKeys : BeginRead(p, k)
    \/ ReadLoad(p)
    \/ \E k \in ConcKeys, v \in ConcValues : BeginWrite(p, k, v)
    \/ WriteAddSize(p)
    \/ WriteStore(p)
    \/ \E k \in ConcKeys : BeginDestroy(p, k)
    \/ DestroyAddSize(p)
    \/ DestroyDelete(p)
    \/ DestroyAddWrites(p)

SpecConc == Init /\ [][NextConc]_vars

\* Requests handled at the same time: net/http runs ServeHTTP of each request
\* in a goroutine of its own.  A handler of a POST takes three steps: it
\* reads the body, asks h.db.Exists(key), and either answers 409 or calls
\* h.db.Write and answers 201.  Each handler serves one request.
\* body, err := io.ReadAll(r.Body) with err == nil
BeginPost(p, key, body, ct) ==
  /\ call[p].pc = "idle"
  /\ call' = [call EXCEPT ![p] =
                [Invoke("POST", key, RequestRecord(body, ct)) EXCEPT
                   !.pc = "p_exists"]]
  /\ hist' = Used(p, key)
  /\ UNCHANGED <<ndb, now, last, files>>

\* if h.db.Exists(key) { w.WriteHeader(http.StatusConflict) }
PostExists(p) ==
  /\ call[p].pc = "p_exists"
  /\ LET e == Exists(ndb, call[p].key, now)
     IN  /\ ndb' = e.db
         /\ call' = [call EXCEPT
                       ![p].ok = e.ok,
                       ![p].pc = IF e.ok THEN "done" ELSE "p_write",
                       ![p].status = IF e.ok THEN StatusConflict ELSE 0]
  /\ UNCHANGED <<now, last, files, hist>>

\* h.db.Write(key, *record); w.WriteHeader(http.StatusCreated)
PostWrite(p) ==
  /\ call[p].pc = "p_write"
  /\ ndb' = Write(ndb, call[p].key, call[p].value, now).db
  /\ call' = [call EXCEPT ![p].pc = "done", ![p].status = StatusCreated]
  /\ UNCHANGED <<now, last, files, hist>>

NextPost ==
  \E p \in Procs :
    \/ \E k \in ConcKeys, b \in {<<1>>, <<2>>}, c \in {CtPlain, CtJson} :
         BeginPost(p, k, b, c)
    \/ PostExists(p)
    \/ PostWrite(p)

SpecPost == Init /\ [][NextPost]_vars

\* os.Create(filename): the file exists and is empty from here on
BeginSave(p, loc) ==
  /\ call[p].pc = "idle"
  /\ ~hist.saving
  /\ IF ~Creatable(loc)
     THEN /\ call' = [call EXCEPT ![p] =
                        [Invoke("Save", "", ZeroRecord) EXCEPT
                           !.loc = loc, !.err = ErrCreate]]
          /\ UNCHANGED <<files, hist>>
     ELSE /\ call' = [call EXCEPT ![p] =
                        [Invoke("Save", "", ZeroRecord) EXCEPT
                           !.loc = loc, !.pc = "s_range"]]
          /\ files' = [files EXCEPT ![loc] = EmptyFile]
          /\ hist' = [hist EXCEPT
                        !.saving = TRUE,
                        !.saver = p,
                        !.overlap = @ \/ OthersInFlight(p),
                        !.seen = [k \in ConcKeys |->
                                    {IF LoadOk(ndb, k) THEN ndb.Records[k]
                                     ELSE ZeroRecord}]]
  /\ UNCHANGED <<ndb, now, last>>

\* ns.Records.Range reaches key: each key once, in any order, with the entry
\* the key has at that moment
RangeVisit(p, key) ==
  /\ call[p].pc = "s_range"
  /\ key \notin call[p].visited
  /\ call' = [call EXCEPT ![p].visited = @ \cup {key},
                          ![p].data = RangeCopy(@, ndb, key)]
  /\ UNCHANGED <<ndb, now, last, files, hist>>

\* the end of Range, encoder.Encode(data) and the return of saveToFile
SaveEncode(p, io) ==
  /\ call[p].pc = "s_range"
  /\ call[p].visited = ConcKeys
  /\ LET r == EncodeAndFlush(ndb, files, call[p].loc, call[p].data, io, now)
     IN  /\ ndb' = r.db
         /\ files' = r.files
         /\ call' = [call EXCEPT ![p].pc = "idle", ![p].io = io, ![p].err = r.err,
                                 ![p].visited = {}, ![p].data = EmptyMap]
  /\ hist' = [hist EXCEPT !.saving = FALSE]
  /\ UNCHANGED <<now, last>>

\* the caller that saves and the caller that writes and deletes meanwhile
Saver == "g1"

Writer == "g2"

\* a save running concurrently with Writes and Destroys
NextSnap ==
  \/ ExistsReads(Writer)
  \/ ExistsLoad(Writer)
  \/ \E k \in ConcKeys, v \in ConcValues : BeginWrite(Writer, k, v)
  \/ WriteAddSize(Writer)
  \/ WriteStore(Writer)
  \/ \E k \in ConcKeys : BeginDestroy(Writer, k)
  \/ DestroyAddSize(Writer)
  \/ DestroyDelete(Writer)
  \/ DestroyAddWrites(Writer)
  \/ \E l \in Locations : BeginSave(Saver, l)
  \/ \E k \in ConcKeys : RangeVisit(Saver, k)
  \/ \E io \in IoOutcomes : SaveEncode(Saver, io)

SpecSnap == Init /\ [][NextSnap]_vars

\* ------------------------------------------------------------------ claims
NumKeys(db) == Cardinality(DOMAIN db.Records)

\* C1: after any sequence of Write, Destroy, Read and Exists calls issued one
\* at a time on an initially empty store, size equals the number of keys
\* present in the mapping.
C1_SizeIsKeyCount == ndb.size = NumKeys(ndb)

\* a Destroy removed a present key and other keys remain
C1_Witness ==
  /\ last.op = "Destroy"
  /\ last.key \in DOMAIN last.before.Records
  /\ NumKeys(ndb) >= 1

\* C8: a Write that returns an error leaves the mapping and the reads,
\* writes and size counters (the whole store) as they were before the call.
C8_FailedWriteNoEffect ==
  (last.op = "Write" /\ last.err # NoErr) => ndb = last.before

\* a Write on a present key was rejected
C8_Witness ==
  /\ last.op = "Write"
  /\ last.err # NoErr
  /\ last.key \in DOMAIN ndb.Records

\* no slash that has a character before it and a character after it
LacksTypeSlashSubtype(ct) == ~\E i \in 2..(Len(ct) - 1) : ct[i] = "/"

C10_OverwriteWholesale ==
  (last.op = "Write" /\ last.err = NoErr
     /\ last.key \in DOMAIN last.before.Records)
  => /\ Exists(ndb, last.key, now).ok
     /\ Read(ndb, last.key, now).err = NoErr
     /\ Read(ndb, last.key, now).record = last.value
     /\ ndb.Records = MapStore(last.before.Records, last.key, last.value)
     /\ ndb.size = last.before.size
     /\ last.before.Records[last.key] = last.value
          => ndb.Records = last.before.Records

\* a present key was overwritten with another payload and content-type
C10_Witness ==
  /\ last.op = "Write"
  /\ last.err = NoErr
  /\ last.key \in DOMAIN last.before.Records
  /\ last.before.Records[last.key].RawData # last.value.RawData
  /\ last.before.Records[last.key].ContentType # last.value.ContentType

\* C6: Save(location) followed by Load(location) yields a store whose
\* mapping is the saved one: same keys, same payload and content-type per key
\* (stated in the state a complete, successful Save leaves).
C6_SaveLoadRoundTrip ==
  (last.op = "Save" /\ last.err = NoErr /\ last.io = "ok")
  => LET r == loadFromFile(files, last.loc, now)
     IN  /\ r.err = NoErr
         /\ r.db.Records = ndb.Records

\* C7: after a successful Load of a snapshot holding N entries the store
\* contains exactly those N keys and its size counter equals N.
C7_LoadSizeIsEntryCount ==
  (last.op = "Load" /\ last.err = NoErr)
  => LET data == GobDecode(files[last.loc].enc)
     IN  /\ DOMAIN ndb.Records = DOMAIN data
         /\ ndb.size = Cardinality(DOMAIN data)

\* C2: for a key that is written and never deleted, a Read invoked after a
\* Write to it has returned does not fail and returns the record that was
\* current at its load: the record of that Write or of a later one, never one
\* that was overwritten before the Read was invoked.
C2_ReadSeesCompletedWrite ==
  \A p \in Procs :
    (/\ call[p].op = "Read"
     /\ call[p].pc = "idle"
     /\ call[p].key \in ConcKeys
     /\ call[p].rfloor >= 1
     /\ ~hist.deleted[call[p].key])
    => /\ call[p].err = NoErr
       /\ call[p].rver >= call[p].rfloor
       /\ call[p].record = call[p].rstored

\* a Read that began after a Write had returned and loaded after a later
\* Write had stored
C2_Witness ==
  \E p \in Procs :
    /\ call[p].op = "Read"
    /\ call[p].pc = "idle"
    /\ call[p].rfloor >= 1
    /\ call[p].rver > call[p].rfloor
    /\ ~hist.deleted[call[p].key]

Unshared == \A k \in ConcKeys : Cardinality(hist.users[k]) <= 1

\* C3: when every key is used by one caller only, no call fails on the type
\* of a stored value and, once all callers have finished, reads, writes and
\* size equal the sums of the per-call effects and size is the number of keys.
C3_DistinctKeysCounters ==
  (Quiescent /\ Unshared)
  => /\ ndb.reads = hist.expected.reads
     /\ ndb.writes = hist.expected.writes
     /\ ndb.size = hist.expected.size
     /\ ndb.size = NumKeys(ndb)
     /\ \A p \in Procs : call[p].err # ErrTypeAssertion

\* two callers, each on its own key, ran overlapping calls and have finished
C3_Witness ==
  /\ Quiescent
  /\ Unshared
  /\ hist.overlap
  /\ \A k \in ConcKeys : hist.users[k] # {}
  /\ NumKeys(ndb) >= 1
  /\ hist.expected.writes >= 2

\* C4: once all in-flight operations have completed, size equals the number
\* of keys present, also after concurrent Writes and Destroys of one key.
C4_QuiescentSizeIsKeyCount == Quiescent => ndb.size = NumKeys(ndb)

\* the same bytes and the same content-type
SameContent(a, b) ==
  a.RawData.bytes = b.RawData.bytes /\ a.ContentType = b.ContentType

\* C5: the snapshot written by a Save that ran concurrently with Writes and
\* Destroys is decodable; every key in it holds a whole record that the key
\* held at some moment during the Save; a key that held one record for the
\* whole Save is in it with that record; a key absent for the whole Save is
\* not in it.
C5_SnapshotWithinSave ==
  \A p \in Procs :
    (/\ call[p].op = "Save"
     /\ call[p].pc = "idle"
     /\ call[p].err = NoErr
     /\ call[p].io = "ok"
     /\ hist.saver = p
     /\ ~hist.saving)
    => /\ files[call[p].loc].kind = "gob"
       /\ LET data == GobDecode(files[call[p].loc].enc)
          IN  /\ \A k \in DOMAIN data :
                   \E r \in hist.seen[k] : r # ZeroRecord /\ SameContent(data[k], r)
              /\ \A k \in ConcKeys :
                   /\ hist.seen[k] = {ZeroRecord} => k \notin DOMAIN data
                   /\ (Cardinality(hist.seen[k]) = 1 /\ ZeroRecord \notin hist.seen[k])
                        => k \in DOMAIN data

\* a Save has returned during which one key held two records and another
\* key held one record throughout
C5_Witness ==
  \E p \in Procs :
    /\ call[p].op = "Save"
    /\ call[p].pc = "idle"
    /\ call[p].err = NoErr
    /\ call[p].io = "ok"
    /\ hist.saver = p
    /\ ~hist.saving
    /\ hist.overlap
    /\ \E k \in ConcKeys : Cardinality(hist.seen[k] \ {ZeroRecord}) >= 2
    /\ \E k \in ConcKeys : Cardinality(hist.seen[k]) = 1 /\ ZeroRecord \notin hist.seen[k]

\* C11: after Destroy(k) of a key k has returned, Exists(k) is false and
\* Read(k) fails with "key doesn't exist"; a second Destroy(k) leaves the
\* mapping as it is and does not decrement size again (Destroy has no error
\* result).
C11_DestroyThenAbsent ==
  (last.op = "Destroy" /\ last.key # "")
  => /\ ~Exists(ndb, last.key, now).ok
     /\ Read(ndb, last.key, now).err = ErrNotExist
     /\ Destroy(ndb, last.key, now).Records = ndb.Records
     /\ Destroy(ndb, last.key, now).size = ndb.size

\* a present key was destroyed while another key stays in the store
C11_Witness ==
  /\ last.op = "Destroy"
  /\ last.key \in DOMAIN last.before.Records
  /\ last.before.size = 2
  /\ ndb.size = 1

\* C12: every Destroy call increments writes by exactly one, whether or not
\* the key was present; a Destroy of an absent key changes neither size nor
\* the mapping.
C12_DestroyCountsWrite ==
  last.op = "Destroy"
  => /\ ndb.writes = last.before.writes + 1
     /\ last.key \notin DOMAIN last.before.Records
          => /\ ndb.size = last.before.size
             /\ ndb.Records = last.before.Records

\* a Destroy of an absent key on a store that holds another key
C12_Witness ==
  /\ last.op = "Destroy"
  /\ last.key # ""
  /\ last.key \notin DOMAIN last.before.Records
  /\ NumKeys(last.before) >= 1
  /\ ndb.writes = last.before.writes + 1

\* C13: Exists("") returns false and changes no counter and no timestamp
\* (nothing of the store); Exists(k) for a non-empty k increments reads by
\* exactly one and returns true if and only if k is in the mapping at that
\* moment (Exists has no error result).
C13_ExistsCounts ==
  last.op = "Exists"
  => /\ last.key = "" => (~last.ok /\ ndb = last.before)
     /\ last.key # ""
          => /\ ndb.reads = last.before.reads + 1
             /\ last.ok <=> last.key \in DOMAIN last.before.Records

\* Exists("") was called on a store that holds a key, at a time later than
\* the last read
C13_Witness ==
  /\ last.op = "Exists"
  /\ last.key = ""
  /\ NumKeys(last.before) >= 1
  /\ last.at > last.before.lastRead
  /\ ~last.ok

\* C14: Read("") fails with "key cannot be empty" and does not increment
\* reads; Read(k) for a non-empty k increments reads by exactly one, returns
\* the stored record when k is present and fails with "key doesn't exist",
\* the read still counted, when k is absent.
C14_ReadCounts ==
  last.op = "Read"
  => /\ last.key = ""
          => (last.err = ErrKeyEmpty /\ ndb.reads = last.before.reads)
     /\ last.key # "" => ndb.reads = last.before.reads + 1
     /\ (last.key # "" /\ last.key \in DOMAIN last.before.Records)
          => (last.err = NoErr /\ last.record = last.before.Records[last.key])
     /\ (last.key # "" /\ last.key \notin DOMAIN last.before.Records)
          => last.err = ErrNotExist

\* a Read of an absent key on a store that holds another key
C14_Witness ==
  /\ last.op = "Read"
  /\ last.key # ""
  /\ last.key \notin DOMAIN last.before.Records
  /\ NumKeys(last.before) >= 1
  /\ last.err = ErrNotExist
  /\ ndb.reads = last.before.reads + 1

\* a content-type that Write accepts
ValidContentType(ct) == ct # <<>> /\ MatchString(ct)

C16_EmptyValueRejected ==
  (/\ last.op = "Write"
   /\ last.key # ""
   /\ ValidContentType(last.value.ContentType)
   /\ Len(last.value.RawData.bytes) = 0)
  => /\ last.err = ErrValueNil
     /\ ndb.Records = last.before.Records

\* C17: a stored record changes only through a later Write or Destroy of
\* its key: after the caller has assigned to an element of the slice it
\* passed to Write or got back from Read, a Read of the key still returns
\* the record as it was before the assignment.
C17_StoredPayloadImmutable ==
  last.op = "Modify"
  => Read(ndb, last.key, now).record = last.before.Records[last.key]

\* the file that holds the complete snapshot of the store db
CompleteSnapshot(db) == GobFile(RangeAll(EmptyMap, db, DOMAIN db.Records))

\* C18: Save returns an error whenever the snapshot has not been completely
\* written to the location (the file cannot be created, or writing or
\* flushing fails): when it returns success the complete snapshot is in the
\* file and last-save is updated.
C18_SaveSuccessMeansComplete ==
  (last.op = "Save" /\ last.err = NoErr)
  => /\ files[last.loc] = CompleteSnapshot(last.before)
     /\ ndb.lastSave = last.at

\* C19: if Save(location) fails, the file at the location still holds the
\* snapshot it held before the call, and the in-memory mapping and counters
\* (the whole store) are unchanged.
C19_FailedSaveKeepsSnapshot ==
  (/\ last.op = "Save"
   /\ last.err # NoErr
   /\ last.filesBefore[last.loc].kind = "gob")
  => /\ files = last.filesBefore
     /\ ndb = last.before

\* C20: a Load of a location that cannot be opened, or whose bytes are not a
\* decodable snapshot (an empty file included), returns an error and no
\* store, and changes neither the files nor the existing store.
C20_FailedLoadNoStore ==
  (last.op = "Load" /\ last.filesBefore[last.loc].kind # "gob")
  => /\ last.err # NoErr
     /\ loadFromFile(last.filesBefore, last.loc, last.at).db = NilDB
     /\ files = last.filesBefore
     /\ ndb = last.before

\* a Load of a file of length 0 failed while the store holds a key
C20_Witness ==
  /\ last.op = "Load"
  /\ last.filesBefore[last.loc] = EmptyFile
  /\ last.err = ErrDecode
  /\ NumKeys(ndb) >= 1

\* the mapping a file decodes to holds the keys of m, each with the bytes
\* and the content-type it has in m
DecodesTo(file, m) ==
  /\ file.kind = "gob"
  /\ LET data == GobDecode(file.enc)
     IN  /\ DOMAIN data = DOMAIN m
         /\ \A k \in DOMAIN m : SameContent(data[k], m[k])

\* C21: Stop saves the mapping to the location the store was constructed
\* with or loaded from and to no other location: after a Stop whose writes
\* to the disk succeed, the file at that location decodes to the mapping held
\* in memory when Stop was called and every other file is as it was.
C21_StopSavesToLocation ==
  (last.op = "Stop" /\ last.io = "ok")
  => /\ DecodesTo(files[last.before.location], last.before.Records)
     /\ \A l \in DOMAIN files :
          l # last.before.location => files[l] = last.filesBefore[l]

\* a store at the second location, holding a key, was stopped while the
\* first location held a snapshot
C21_Witness ==
  /\ last.op = "Stop"
  /\ last.io = "ok"
  /\ last.before.location = "db2"
  /\ NumKeys(last.before) >= 1
  /\ files["db"].kind = "gob"

\* the characters of a type, subtype, attribute or value
TokenChars == Alnum \cup {"-", "+", "."}

IsToken(s) == s # <<>> /\ \A i \in 1..Len(s) : s[i] \in TokenChars

\* the parts of s between the occurrences of sep
RECURSIVE SplitOn(_, _)
SplitOn(s, sep) ==
  IF \E i \in 1..Len(s) : s[i] = sep
  THEN LET i == CHOOSE j \in 1..Len(s) :
                  s[j] = sep /\ \A h \in 1..(j - 1) : s[h] # sep
       IN  <<SubSeq(s, 1, i - 1)>> \o SplitOn(SubSeq(s, i + 1, Len(s)), sep)
  ELSE <<s>>

RECURSIVE TrimLeft(_)
TrimLeft(s) == IF s # <<>> /\ s[1] = " " THEN TrimLeft(Tail(s)) ELSE s

\* token "/" token
IsTypeSubtype(s) ==
  LET parts == SplitOn(s, "/")
  IN  Len(parts) = 2 /\ IsToken(parts[1]) /\ IsToken(parts[2])

\* attribute "=" value, after optional spaces
IsParameter(s) ==
  LET parts == SplitOn(TrimLeft(s), "=")
  IN  Len(parts) = 2 /\ IsToken(parts[1]) /\ IsToken(parts[2])

\* the whole string is type/subtype followed by ;attribute=value parameters
WellFormedContentType(ct) ==
  LET segs == SplitOn(ct, ";")
  IN  /\ IsTypeSubtype(segs[1])
      /\ \A i \in 2..Len(segs) : IsParameter(segs[i])

\* C22: Write (with a valid key and payload) accepts a non-empty
\* content-type if and only if the whole string has the form type/subtype
\* optionally followed by ;attribute=value parameters; any other string is
\* rejected with "Content-Type is not valid" and nothing is stored.
C22_ContentTypeWholeShape ==
  (/\ last.op = "Write"
   /\ last.key # ""
   /\ ~last.value.RawData.isNil
   /\ last.value.ContentType # <<>>)
  => /\ last.err = NoErr <=> WellFormedContentType(last.value.ContentType)
     /\ ~WellFormedContentType(last.value.ContentType)
          => (last.err = ErrCtInvalid /\ ndb = last.before)

\* C23: for every payload p (the empty one included) and every content-type
\* c of the form type/subtype[;attribute=value] of at most 255 bytes,
\* decoding the bytes produced by encoding (p, c) succeeds and returns
\* exactly p and c.
C23_CodecRoundTrip ==
  (/\ last.op = "Encode"
   /\ WellFormedContentType(last.value.ContentType)
   /\ Len(last.value.ContentType) <= MaxContentTypeLen)
  => /\ last.err = NoErr
     /\ deserialize(last.buf) =
          [payload |-> last.value.RawData.bytes,
           ct      |-> last.value.ContentType,
           err     |-> NoErr]

\* the empty payload was encoded with a content-type of 255 bytes
C23_Witness ==
  /\ last.op = "Encode"
  /\ last.value.RawData.bytes = <<>>
  /\ Len(last.value.ContentType) = MaxContentTypeLen
  /\ WellFormedContentType(last.value.ContentType)
  /\ Len(last.buf) = 2 + MaxContentTypeLen

\* the bytes TestSerialization expects for ("test",
\* "application/octet-stream")
TestSerializationBytes ==
  <<0, 24, 97, 112, 112, 108, 105, 99, 97, 116, 105, 111, 110, 47, 111, 99,
    116, 101, 116, 45, 115, 116, 114, 101, 97, 109, 116, 101, 115, 116>>

WellFormedRequest ==
  /\ last.io = "ok"
  /\ last.value.RawData.bytes # <<>>
  /\ ValidContentType(last.value.ContentType)

Answers(db, key) ==
  {ServeHEAD(db, key, now).resp.status, ServeGET(db, key, now).resp.status,
   ServeDELETE(db, key, now).resp.status}

\* the last request was a POST or a PUT of the key and was accepted
AcceptedStore(l, key) ==
  /\ l.op \in {"POST", "PUT"}
  /\ l.key = key
  /\ l.status \in {StatusOK, StatusCreated}

\* C28: a DELETE of a present key removes it and is answered 200, a DELETE
\* of an absent key is answered 404 and changes no record; HEAD, GET and
\* DELETE of a key that holds no record are all answered 404, the records of
\* the other keys are kept and served, and a key without a record gets one
\* only by an accepted POST or PUT of that key.
C28_DeleteRemoves ==
  /\ [](/\ \A k \in ConcKeys :
              k \notin DOMAIN ndb.Records => Answers(ndb, k) = {StatusNotFound}
        /\ last.op = "DELETE" =>
              IF last.key \in DOMAIN last.before.Records
              THEN /\ last.status = StatusOK
                   /\ ndb.Records = MapDelete(last.before.Records, last.key)
                   /\ \A k \in DOMAIN ndb.Records :
                        LET get == ServeGET(ndb, k, now).resp
                        IN  /\ get.status = StatusOK
                            /\ get.body = last.before.Records[k].RawData.bytes
              ELSE /\ last.status = StatusNotFound
                   /\ ndb.Records = last.before.Records
                   /\ ndb.size = last.before.size)
  /\ [][\A k \in ConcKeys :
          (k \notin DOMAIN ndb.Records /\ k \in DOMAIN ndb'.Records)
            => AcceptedStore(last', k)]_vars

\* a DELETE answered 200 removed one of two records
C28_Witness ==
  /\ last.op = "DELETE"
  /\ last.status = StatusOK
  /\ DOMAIN last.before.Records = ConcKeys
  /\ DOMAIN ndb.Records = ConcKeys \ {last.key}

C30_BadRequestRejected ==
  (/\ last.op \in {"POST", "PUT"}
   /\ last.io = "ok"
   /\ \/ last.value.ContentType = <<>>
      \/ ~WellFormedContentType(last.value.ContentType)
      \/ last.value.RawData.bytes = <<>>)
    => (last.status = 400 /\ ndb.Records = last.before.Records)

\* C31: a request answered 405 (a method without a case) or 500 (the body
\* cannot be read, or the remote address cannot be parsed) leaves the
\* mapping of the store as it was.
C31_RejectedKeepsMapping ==
  last.status \in {StatusMethodNotAllowed, StatusInternalServerError}
    => ndb.Records = last.before.Records

\* a PUT whose body could not be read was answered 500 for a key that holds
\* a record
C31_Witness ==
  /\ last.op = "PUT"
  /\ last.io = "readFail"
  /\ last.status = StatusInternalServerError
  /\ last.key \in DOMAIN ndb.Records

\* C32: when several POST requests for one absent key are handled at the
\* same time, at most one of them is answered 201, the others are answered
\* 409, and the record stored afterwards is the body of the request that was
\* answered 201.
C32_OnePostCreated ==
  \A p \in Procs : \A q \in Procs \ {p} :
    (/\ call[p].pc = "done" /\ call[q].pc = "done"
     /\ call[p].key = call[q].key
     /\ call[p].status = StatusCreated)
      => /\ call[q].status = StatusConflict
         /\ ndb.Records[call[p].key] = call[p].value

\* C33: in every reachable state, under any interleaving of concurrent
\* Write and Destroy calls (several Destroys of one present key included),
\* the size counter is at least 0.
C33_SizeNeverNegative == ndb.size >= 0

\* C34: whenever a POST is answered 201, or a PUT 200 or 201, the store
\* holds under the key of the request the submitted body and the submitted
\* Content-Type when the handler returns (requests handled one at a time): a
\* success status is never sent for a write the store rejected.
C34_SuccessMeansStored ==
  (\/ last.op = "POST" /\ last.status = StatusCreated
   \/ last.op = "PUT" /\ last.status \in {StatusOK, StatusCreated})
    => /\ last.key \in DOMAIN ndb.Records
       /\ ndb.Records[last.key].RawData.bytes = last.value.RawData.bytes
       /\ last.value.ContentType # <<>> =>
            ndb.Records[last.key].ContentType = last.value.ContentType

\* the change of the counters reads, writes and size by the last call
CounterDelta ==
  [reads  |-> ndb.reads - last.before.reads,
   writes |-> ndb.writes - last.before.writes,
   size   |-> ndb.size - last.before.size]

Delta(r, w, sz) == [reads |-> r, writes |-> w, size |-> sz]

\* C35: for calls issued one at a time, a successful Write adds 1 to reads
\* and 1 to writes, and 1 to size only when the key was absent; a Destroy of
\* a non-empty key adds 1 to reads and 1 to writes, and subtracts 1 from size
\* only when the key was present; Exists and Read of a non-empty key add 1
\* to reads and nothing else; a rejected Write adds nothing.
C35_CounterAccounting ==
  LET present == last.key \in DOMAIN last.before.Records
  IN  /\ (last.op = "Write" /\ last.err = NoErr) =>
            CounterDelta = Delta(1, 1, IF present THEN 0 ELSE 1)
      /\ (last.op = "Write" /\ last.err # NoErr) =>
            CounterDelta = Delta(0, 0, 0)
      /\ (last.op = "Destroy" /\ last.key # "") =>
            CounterDelta = Delta(1, 1, IF present THEN -1 ELSE 0)
      /\ (last.op \in {"Exists", "Read"} /\ last.key # "") =>
            CounterDelta = Delta(1, 0, 0)

\* a successful Write replaced the record of a key: size stayed as it was
C35_Witness ==
  /\ last.op = "Write"
  /\ last.err = NoErr
  /\ last.key \in DOMAIN last.before.Records
  /\ last.before.size = 1
  /\ CounterDelta = Delta(1, 1, 0)

\* the mapping m holds the entries of the decoded snapshot file that Write
\* accepts, and nothing else
PopulatedFrom(m, file) ==
  LET data == GobDecode(file.enc)
  IN  /\ DOMAIN m \subseteq DOMAIN data
      /\ \A k \in DOMAIN m : m[k] = data[k]
      /\ \A k \in DOMAIN data : Validate(k, data[k]) = NoErr => k \in DOMAIN m

C37_OnlyValidatedRecords ==
  /\ \A k \in DOMAIN ndb.Records :
        /\ k # ""
        /\ IsNabiaRecord(ndb.Records[k])
        /\ ~ndb.Records[k].RawData.isNil
        /\ ndb.Records[k].ContentType # <<>>
        /\ MatchString(ndb.Records[k].ContentType)
        /\ Validate(k, ndb.Records[k]) = NoErr
  /\ \A k \in Keys : Read(ndb, k, now).err # ErrTypeAssertion

\* a Load put a record into the mapping of the new store
C37_Witness ==
  /\ last.op = "Load"
  /\ last.err = NoErr
  /\ DOMAIN ndb.Records # {}
  /\ \E k \in DOMAIN ndb.Records : Read(ndb, k, now).err = NoErr

\* the entry of key k: its presence and its record
Entry(db, k) ==
  IF k \in DOMAIN db.Records THEN <<TRUE, db.Records[k]>> ELSE <<FALSE, ZeroRecord>>

\* C38: Write(k, ...) and Destroy(k) change at most the entry of key k: in
\* every step, under any interleaving, a key whose presence or record
\* changes is the key of the call that takes the step, and that call is at
\* its Store or its Delete.
C38_OnlyOwnKeyChanges ==
  [][\A k \in ConcKeys :
       Entry(ndb, k) # Entry(ndb', k) =>
         \E p \in Procs : /\ call[p].key = k
                          /\ call[p].pc \in {"w_store", "d_delete"}
                          /\ call'[p].pc # call[p].pc]_vars

\* a Write of one key and a Destroy of the other ran at the same time, and
\* the record of the Write is in the mapping
C38_Witness ==
  \E p \in Procs : \E q \in Procs \ {p} :
    /\ hist.overlap
    /\ call[p].op = "Write" /\ call[p].pc = "idle" /\ call[p].err = NoErr
    /\ call[q].op = "Destroy" /\ call[q].pc = "idle"
    /\ call[q].key \in ConcKeys \ {call[p].key}
    /\ hist.deleted[call[q].key]
    /\ hist.stores[call[q].key] > 0
    /\ call[p].key \in DOMAIN ndb.Records
    /\ ndb.Records[call[p].key] = call[p].value

\* the fields of the store other than those in the set except are as they
\* were before the last call
StoreKeptExcept(except) ==
  \A f \in (DOMAIN ndb) \ except : ndb[f] = last.before[f]

\* C39: Exists, Read and Save never change the mapping, the size counter or
\* the writes counter: Exists and Read alter only reads and last-read (and
\* no file), and Save alters only last-save and the snapshot file.
C39_ReadOnlyCalls ==
  /\ last.op \in {"Exists", "Read"} =>
        (StoreKeptExcept({"reads", "lastRead"}) /\ files = last.filesBefore)
  /\ last.op = "Save" =>
        /\ StoreKeptExcept({"lastSave"})
        /\ \A l \in DOMAIN files : l # last.loc => files[l] = last.filesBefore[l]

\* a Save of a store with a record and counted calls, at a later time than
\* its last write, set last-save and wrote the file
C39_Witness ==
  /\ last.op = "Save"
  /\ last.err = NoErr
  /\ DOMAIN ndb.Records # {}
  /\ ndb.lastSave # last.before.lastSave
  /\ files[last.loc] # last.filesBefore[last.loc]
  /\ ndb.reads > 1

\* C40: the client's optionsData returns a non-nil error to its caller (the
\* process keeps running) when the response carries an empty or missing
\* Allow header, and returns the value of the Allow header with a nil error
\* otherwise.
C40_OptionsDataReturns ==
  (last.op = "optionsData" /\ last.io = "ok") =>
    IF last.allow = ""
    THEN last.ok /\ last.err # NoErr
    ELSE last.ok /\ last.err = NoErr /\ last.result = last.allow

====
